---- MODULE Spec2Model ----
(***************************************************************************)
(* AI Ops Desk: the agent pipeline (agents.py), its payload model          *)
(* (schemas.py) and the orchestrator's incoming-message handler with its   *)
(* workflow record store (orchestrator.py).                                *)
(*                                                                         *)
(* Scores (confidence, risk score, escalation threshold) are floats in     *)
(* [0, 1] in the source; here they are integers in hundredths, 0..100, so  *)
(* 0.7 is 70 and 0.85 is 85.  The comparisons are the source's.            *)
(*                                                                         *)
(* An Optional[T] of the source is a sequence of length at most one:       *)
(* <<>> is None, <<v>> is the value v.                                     *)
(*                                                                         *)
(* The calls the source leaves to its collaborators (fetch_gmail_thread,   *)
(* call_llm_triage, find_calendar_slots, search_kb, score_qa_risk, the     *)
(* database commit, the event log) either return or raise; what they       *)
(* return is drawn from sets that contain the source's placeholder values. *)
(***************************************************************************)
EXTENDS Integers, Sequences, FiniteSets, TLC

VARIABLES run, store, now, call

vars == <<run, store, now, call>>

--------------------------------------------------------------------------
(* Bounds of the model *)

\* number of handler invocations (and of workflow ids)
NumRuns == 2
\* the clock stops advancing here
MaxClock == 2
\* longest thread history the thread connector returns
MaxHistory == 1

--------------------------------------------------------------------------
(* Program constants, in hundredths *)

\* risk_score > 0.7 escalates
RISK_ESCALATE == 70
\* risk_score < 0.3 is required for auto-send
RISK_AUTO_SEND == 30
\* confidence > 0.85 is required for auto-send
CONFIDENCE_AUTO_SEND == 85
\* the placeholder risk score
PLACEHOLDER_RISK == 20
\* the placeholder classification's confidence
PLACEHOLDER_CONFIDENCE == 85
\* TenantConfig.escalation_threshold's default
DEFAULT_ESCALATION_THRESHOLD == 70

--------------------------------------------------------------------------
(* schemas.py *)

Intent == {"scheduling", "support", "billing", "lead", "other", "spam"}

Priority == {"critical", "high", "normal", "low"}

QADecision == {"auto_send", "draft_only", "escalate"}

\* Optional[T]
None == <<>>

Some(v) == <<v>>

Runs == 1..NumRuns

Min(a, b) == IF a <= b THEN a ELSE b

\* Classification(intent, priority, confidence); sub_intent stays None
Classification(intent, confidence, priority) ==
    [intent |-> intent, confidence |-> confidence, priority |-> priority]

\* Action(action_type, tool_name, tool_args={"body": ...}), status "pending"
Action(action_type, tool_name) ==
    [action_type |-> action_type, tool_name |-> tool_name, status |-> "pending"]

\* TenantConfig(tenant_id, **overrides): the fields the pipeline reads
TenantConfig(tenant_id, overrides) ==
    [tenant_id |-> tenant_id,
     auto_send_enabled |->
        IF overrides = None THEN FALSE ELSE overrides[1].auto_send_enabled,
     escalation_threshold |->
        IF overrides = None THEN DEFAULT_ESCALATION_THRESHOLD
        ELSE overrides[1].escalation_threshold]

\* WorkflowPayload(...): enrichment fields default to None, action_plan to []
WorkflowPayload(workflow_id, tenant_id, tenant_config, created, updated) ==
    [workflow_id |-> workflow_id,
     tenant_id |-> tenant_id,
     correlation_id |-> workflow_id,
     thread_history |-> 0,
     tenant_config |-> tenant_config,
     classification |-> None,
     qa_decision |-> "None",
     qa_risk_score |-> None,
     action_plan |-> <<>>,
     created_at |-> created,
     updated_at |-> updated]

--------------------------------------------------------------------------
(* agents.py *)

\* a log dict: {"agent", "status", "skipped"?, "error"?, "reason"?}
Log(agent, status) ==
    [agent |-> agent, status |-> status, skipped |-> FALSE, error |-> "",
     reason |-> ""]

\* what a call of an agent gives: the (payload, log) pair, or an exception
\* that leaves the agent
Returned(payload, log) == [raised |-> FALSE, payload |-> payload, log |-> log]

Raised(payload) ==
    [raised |-> TRUE, payload |-> payload, log |-> Log("", "pending")]

\* an ingestion that stamps updated_at with the payload's created_at
ingestion_agent_created_stamp(payload, fetched, t) ==
    IF fetched = None
    THEN Returned([payload EXCEPT !.updated_at = payload.created_at],
                  [Log("ingestion", "failed") EXCEPT !.error = "ConnectorError"])
    ELSE Returned([payload EXCEPT !.thread_history = fetched[1],
                                  !.updated_at = payload.created_at],
                  Log("ingestion", "completed"))

\* fetched: None when the thread fetch raises, else the number of messages
ingestion_agent(payload, fetched, t) ==
    IF fetched = None
    THEN Returned([payload EXCEPT !.updated_at = t],
                  [Log("ingestion", "failed") EXCEPT !.error = "ConnectorError"])
    ELSE Returned([payload EXCEPT !.thread_history = fetched[1],
                                  !.updated_at = t],
                  Log("ingestion", "completed"))

\* triage_agent without its try block: the classifier's exception leaves
\* the agent
triage_agent_uncaught(payload, classified, t) ==
    IF classified = None
    THEN Raised(payload)
    ELSE Returned([payload EXCEPT !.classification = classified,
                                  !.updated_at = t],
                  Log("triage", "completed"))

\* classified: None when the classifier raises, else its Classification
triage_agent(payload, classified, t) ==
    IF classified = None
    THEN Returned([payload EXCEPT !.updated_at = t],
                  [Log("triage", "failed") EXCEPT !.error = "ClassifierError"])
    ELSE Returned([payload EXCEPT !.classification = classified,
                                  !.updated_at = t],
                  Log("triage", "completed"))

\* drafted: FALSE when the calendar lookup or the drafting raises.  The
\* intent is read before the try block: with no classification the
\* attribute access raises out of the agent.
admin_scheduling_agent(payload, drafted, t) ==
    IF payload.classification = None
    THEN Raised(payload)
    ELSE IF payload.classification[1].intent # "scheduling"
    THEN Returned(payload,
                  [Log("admin_scheduling", "pending") EXCEPT !.skipped = TRUE])
    ELSE IF ~drafted
    THEN Returned([payload EXCEPT !.updated_at = t],
                  [Log("admin_scheduling", "failed") EXCEPT
                      !.error = "ConnectorError"])
    ELSE Returned([payload EXCEPT
                      !.action_plan = Append(@, Action("reply", "gmail")),
                      !.updated_at = t],
                  Log("admin_scheduling", "completed"))

\* support_faq_agent appending its action before the call that may raise
support_faq_agent_early_append(payload, drafted, t) ==
    IF payload.classification = None
    THEN Raised(payload)
    ELSE IF payload.classification[1].intent # "support"
    THEN Returned(payload,
                  [Log("support_faq", "pending") EXCEPT !.skipped = TRUE])
    ELSE Returned([payload EXCEPT
                      !.action_plan = Append(@, Action("reply", "gmail")),
                      !.updated_at = t],
                  IF drafted THEN Log("support_faq", "completed")
                  ELSE [Log("support_faq", "failed") EXCEPT
                           !.error = "ConnectorError"])

\* drafted: FALSE when the knowledge-base search or the drafting raises
support_faq_agent(payload, drafted, t) ==
    IF payload.classification = None
    THEN Raised(payload)
    ELSE IF payload.classification[1].intent # "support"
    THEN Returned(payload,
                  [Log("support_faq", "pending") EXCEPT !.skipped = TRUE])
    ELSE IF ~drafted
    THEN Returned([payload EXCEPT !.updated_at = t],
                  [Log("support_faq", "failed") EXCEPT
                      !.error = "ConnectorError"])
    ELSE Returned([payload EXCEPT
                      !.action_plan = Append(@, Action("reply", "gmail")),
                      !.updated_at = t],
                  Log("support_faq", "completed"))

\* the decision rule with confidence <= escalation_threshold escalating
qa_decide_inclusive(confidence, risk_score, auto_send_enabled, escalation_threshold) ==
    IF confidence <= escalation_threshold \/ risk_score > RISK_ESCALATE
    THEN "escalate"
    ELSE IF auto_send_enabled /\ risk_score < RISK_AUTO_SEND
            /\ confidence > CONFIDENCE_AUTO_SEND
    THEN "auto_send"
    ELSE "draft_only"

\* the decision rule with the auto-send test first
qa_decide_auto_send_first(confidence, risk_score, auto_send_enabled, escalation_threshold) ==
    IF auto_send_enabled /\ risk_score < RISK_AUTO_SEND
       /\ confidence > CONFIDENCE_AUTO_SEND
    THEN "auto_send"
    ELSE IF confidence < escalation_threshold \/ risk_score > RISK_ESCALATE
    THEN "escalate"
    ELSE "draft_only"

\* the decision rule without the tenant's auto_send_enabled
qa_decide_ungated(confidence, risk_score, auto_send_enabled, escalation_threshold) ==
    IF confidence < escalation_threshold \/ risk_score > RISK_ESCALATE
    THEN "escalate"
    ELSE IF risk_score < RISK_AUTO_SEND /\ confidence > CONFIDENCE_AUTO_SEND
    THEN "auto_send"
    ELSE "draft_only"

\* the decision rule with confidence >= 0.85 enough for auto-send
qa_decide_auto_send_inclusive(confidence, risk_score, auto_send_enabled, escalation_threshold) ==
    IF confidence < escalation_threshold \/ risk_score > RISK_ESCALATE
    THEN "escalate"
    ELSE IF auto_send_enabled /\ risk_score < RISK_AUTO_SEND
            /\ confidence >= CONFIDENCE_AUTO_SEND
    THEN "auto_send"
    ELSE "draft_only"

\* the decision rule of the guardrail
qa_decide(confidence, risk_score, auto_send_enabled, escalation_threshold) ==
    IF confidence < escalation_threshold \/ risk_score > RISK_ESCALATE
    THEN "escalate"
    ELSE IF auto_send_enabled /\ risk_score < RISK_AUTO_SEND
            /\ confidence > CONFIDENCE_AUTO_SEND
    THEN "auto_send"
    ELSE "draft_only"

\* a guardrail that escalates when there is no classification to read
qa_guardrail_agent_escalate_unclassified(payload, scored, t) ==
    IF scored = None
    THEN Returned([payload EXCEPT !.updated_at = t],
                  [Log("qa_guardrail", "failed") EXCEPT !.error = "ScoringError"])
    ELSE IF payload.classification = None
    THEN Returned([payload EXCEPT !.qa_risk_score = scored,
                                  !.qa_decision = "escalate",
                                  !.updated_at = t],
                  Log("qa_guardrail", "completed"))
    ELSE Returned([payload EXCEPT
                      !.qa_risk_score = scored,
                      !.qa_decision =
                          qa_decide(payload.classification[1].confidence,
                                    scored[1],
                                    payload.tenant_config.auto_send_enabled,
                                    payload.tenant_config.escalation_threshold),
                      !.updated_at = t],
                  Log("qa_guardrail", "completed"))

\* scored: None when the risk scoring raises, else the risk score
qa_guardrail_agent(payload, scored, t) ==
    IF scored = None
    THEN Returned([payload EXCEPT !.updated_at = t],
                  [Log("qa_guardrail", "failed") EXCEPT !.error = "ScoringError"])
    ELSE IF payload.classification = None
    THEN Returned([payload EXCEPT !.qa_risk_score = scored,
                                  !.updated_at = t],
                  [Log("qa_guardrail", "failed") EXCEPT
                      !.error = "AttributeError"])
    ELSE Returned([payload EXCEPT
                      !.qa_risk_score = scored,
                      !.qa_decision =
                          qa_decide(payload.classification[1].confidence,
                                    scored[1],
                                    payload.tenant_config.auto_send_enabled,
                                    payload.tenant_config.escalation_threshold),
                      !.updated_at = t],
                  Log("qa_guardrail", "completed"))

--------------------------------------------------------------------------
(* orchestrator.py *)

\* str(x), the default= of json.dumps: the object's repr as a string
pystr(x) == <<"str", x>>

\* json.loads(json.dumps(payload.__dict__, default=str)): strings, numbers
\* and None pass; a str-valued enum member becomes its value; every other
\* object (dataclass, datetime) becomes its str(); a list keeps its shape.
PayloadSnapshot(payload) ==
    [workflow_id |-> payload.workflow_id,
     tenant_id |-> payload.tenant_id,
     correlation_id |-> payload.correlation_id,
     thread_history |-> pystr(payload.thread_history),
     tenant_config |-> pystr(payload.tenant_config),
     classification |->
        IF payload.classification = None THEN None
        ELSE pystr(payload.classification[1]),
     qa_decision |->
        IF payload.qa_decision = "None" THEN "null" ELSE payload.qa_decision,
     qa_risk_score |-> payload.qa_risk_score,
     action_plan |->
        [i \in DOMAIN payload.action_plan |-> pystr(payload.action_plan[i])],
     created_at |-> pystr(payload.created_at),
     updated_at |-> pystr(payload.updated_at)]

\* WorkflowRecord(...), status "processing"
WorkflowRecord(workflow_id, tenant_id, payload, created, updated) ==
    [workflow_id |-> workflow_id,
     tenant_id |-> tenant_id,
     payload |-> PayloadSnapshot(payload),
     created_at |-> created,
     updated_at |-> updated,
     status |-> "processing"]

\* WorkflowResponse(workflow_id, decision, status="completed", message)
WorkflowResponse(workflow_id, payload) ==
    [kind |-> "WorkflowResponse",
     workflow_id |-> workflow_id,
     decision |-> IF payload.qa_decision = "None" THEN "null"
                  ELSE payload.qa_decision,
     status |-> "completed",
     detail |-> ""]

\* the 500 the caller gets when an exception leaves the handler
ErrorResponse(workflow_id, e) ==
    [kind |-> "HTTPException",
     workflow_id |-> workflow_id,
     decision |-> "null",
     status |-> "error",
     detail |-> e]

\* datetime.utcnow(): the clock read, which may have advanced
utcnow == now..Min(now + 1, MaxClock)

\* a later read of the clock in the same step
utcnow_after(t) == t..Min(t + 1, MaxClock)

\* the locals of a handler invocation that has not started
IdleRun ==
    [pc |-> "idle", request |-> None, workflow_id |-> 0, payload |-> None,
     record |-> None, session |-> "clean", agent_logs |-> <<>>, exc |-> "",
     response |-> None]

\* what the collaborators may hand to one handler invocation
\* IncomingMessageRequest: tenant_config is None or the overrides; a request
\* is malformed when TenantConfig, Contact or Message reject its keys
Request(tenant_id, tenant_config, well_formed) ==
    [tenant_id |-> tenant_id, tenant_config |-> tenant_config,
     well_formed |-> well_formed]

Local(w) == run[w]

\* the handler is entered: db = SessionLocal(), workflow_id = str(uuid4());
\* ids is what uuid4 may give this invocation
Receive(w, requests, ids) ==
    /\ Local(w).pc = "idle"
    /\ \E request \in requests : \E id \in ids :
          run' = [run EXCEPT ![w] = [@ EXCEPT !.pc = "build",
                                               !.request = Some(request),
                                               !.workflow_id = id]]
    /\ UNCHANGED <<store, now, call>>

\* TenantConfig(...) and WorkflowPayload(...) are built, or a constructor
\* raises TypeError; created_at and updated_at are two reads of the clock
BuildPayload(w) ==
    /\ Local(w).pc = "build"
    /\ LET request == Local(w).request[1] IN
       IF request.well_formed
       THEN \E created \in utcnow : \E updated \in utcnow_after(created) :
              /\ run' = [run EXCEPT ![w] = [@ EXCEPT
                    !.pc = "create",
                    !.payload = Some(WorkflowPayload(
                        Local(w).workflow_id, request.tenant_id,
                        TenantConfig(request.tenant_id, request.tenant_config),
                        created, updated))]]
              /\ now' = updated
       ELSE /\ run' = [run EXCEPT ![w] = [@ EXCEPT !.pc = "except",
                                                    !.exc = "TypeError"]]
            /\ now' = now
    /\ UNCHANGED <<store, call>>

\* a create that merges the record into the session instead of adding it:
\* the row of an existing key is overwritten
CreateRecord_merge(w) ==
    /\ Local(w).pc = "create"
    /\ UNCHANGED call
    /\ \E created \in utcnow : \E updated \in utcnow_after(created) :
       \E committed \in BOOLEAN :
         LET record == WorkflowRecord(Local(w).workflow_id,
                                      Local(w).request[1].tenant_id,
                                      Local(w).payload[1], created, updated)
         IN /\ now' = updated
            /\ IF committed
               THEN /\ store' = [store EXCEPT ![record.workflow_id] =
                                                   Some(record)]
                    /\ run' = [run EXCEPT ![w] = [@ EXCEPT
                          !.pc = "ingestion",
                          !.record = Some(record),
                          !.agent_logs = <<>>]]
               ELSE /\ store' = store
                    /\ run' = [run EXCEPT ![w] = [@ EXCEPT
                          !.pc = "except",
                          !.record = Some(record),
                          !.session = "failed",
                          !.exc = "SQLAlchemyError"]]

\* record = WorkflowRecord(...); db.add(record); db.commit().  The INSERT
\* of a workflow_id the table already holds violates the primary key and
\* the commit raises IntegrityError; any other commit may fail as well.
CreateRecord(w) ==
    /\ Local(w).pc = "create"
    /\ UNCHANGED call
    /\ \E created \in utcnow : \E updated \in utcnow_after(created) :
       \E committed \in BOOLEAN :
         LET record == WorkflowRecord(Local(w).workflow_id,
                                      Local(w).request[1].tenant_id,
                                      Local(w).payload[1], created, updated)
         IN /\ now' = updated
            /\ IF store[record.workflow_id] # None
               THEN /\ store' = store
                    /\ run' = [run EXCEPT ![w] = [@ EXCEPT
                          !.pc = "except",
                          !.record = Some(record),
                          !.session = "failed",
                          !.exc = "IntegrityError"]]
               ELSE IF committed
               THEN /\ store' = [store EXCEPT ![record.workflow_id] =
                                                   Some(record)]
                    /\ run' = [run EXCEPT ![w] = [@ EXCEPT
                          !.pc = "ingestion",
                          !.record = Some(record),
                          !.agent_logs = <<>>]]
               ELSE /\ store' = store
                    /\ run' = [run EXCEPT ![w] = [@ EXCEPT
                          !.pc = "except",
                          !.record = Some(record),
                          !.session = "failed",
                          !.exc = "SQLAlchemyError"]]

\* payload, log = agent(payload); agent_logs.append(log)
AfterAgent(w, out, next_pc) ==
    run' = [run EXCEPT ![w] =
        IF out.raised
        THEN [@ EXCEPT !.pc = "except", !.exc = "AttributeError"]
        ELSE [@ EXCEPT !.pc = next_pc,
                       !.payload = Some(out.payload),
                       !.agent_logs = Append(@, out.log)]]

\* 1. Ingestion
Ingestion(w, fetches) ==
    /\ Local(w).pc = "ingestion"
    /\ \E fetched \in fetches : \E t \in utcnow :
          /\ AfterAgent(w, ingestion_agent(Local(w).payload[1], fetched, t),
                        "triage")
          /\ now' = t
    /\ UNCHANGED <<store, call>>

\* 2. Triage
Triage(w, classifications) ==
    /\ Local(w).pc = "triage"
    /\ \E classified \in classifications : \E t \in utcnow :
          /\ AfterAgent(w, triage_agent(Local(w).payload[1], classified, t),
                        "route")
          /\ now' = t
    /\ UNCHANGED <<store, call>>

\* routing that calls both workers in turn and relies on their guard clauses
Route_every_worker(w) ==
    /\ Local(w).pc = "route"
    /\ LET payload == Local(w).payload[1] IN
       IF payload.classification # None
       THEN \E drafted \in BOOLEAN : \E t \in utcnow :
              LET first == admin_scheduling_agent(payload, drafted, t)
                  second == support_faq_agent(first.payload, drafted, t)
              IN /\ run' = [run EXCEPT ![w] = [@ EXCEPT
                       !.pc = "qa_guardrail",
                       !.payload = Some(second.payload),
                       !.agent_logs = @ \o <<first.log, second.log>>]]
                 /\ now' = t
       ELSE /\ run' = [run EXCEPT ![w] = [@ EXCEPT !.pc = "qa_guardrail"]]
            /\ now' = now
    /\ UNCHANGED <<store, call>>

\* routing that logs the generic "no handler" entry for an absent
\* classification too
Route_logs_absent(w) ==
    /\ Local(w).pc = "route"
    /\ LET payload == Local(w).payload[1] IN
       IF payload.classification # None
          /\ payload.classification[1].intent = "scheduling"
       THEN \E drafted \in BOOLEAN : \E t \in utcnow :
              /\ AfterAgent(w, admin_scheduling_agent(payload, drafted, t),
                            "qa_guardrail")
              /\ now' = t
       ELSE IF payload.classification # None
               /\ payload.classification[1].intent = "support"
       THEN \E drafted \in BOOLEAN : \E t \in utcnow :
              /\ AfterAgent(w, support_faq_agent(payload, drafted, t),
                            "qa_guardrail")
              /\ now' = t
       ELSE /\ run' = [run EXCEPT ![w] = [@ EXCEPT
                  !.pc = "qa_guardrail",
                  !.agent_logs = Append(@,
                      [Log("worker", "skipped") EXCEPT
                          !.reason = "No handler for intent"])]]
            /\ now' = now
    /\ UNCHANGED <<store, call>>

\* 3. Route to the worker agent of the classified intent
Route(w) ==
    /\ Local(w).pc = "route"
    /\ LET payload == Local(w).payload[1] IN
       IF payload.classification # None
       THEN IF payload.classification[1].intent = "scheduling"
            THEN \E drafted \in BOOLEAN : \E t \in utcnow :
                   /\ AfterAgent(w, admin_scheduling_agent(payload, drafted, t),
                                 "qa_guardrail")
                   /\ now' = t
            ELSE IF payload.classification[1].intent = "support"
            THEN \E drafted \in BOOLEAN : \E t \in utcnow :
                   /\ AfterAgent(w, support_faq_agent(payload, drafted, t),
                                 "qa_guardrail")
                   /\ now' = t
            ELSE /\ run' = [run EXCEPT ![w] = [@ EXCEPT
                       !.pc = "qa_guardrail",
                       !.agent_logs = Append(@,
                           [Log("worker", "skipped") EXCEPT
                               !.reason = "No handler for intent"])]]
                 /\ now' = now
       ELSE /\ run' = [run EXCEPT ![w] = [@ EXCEPT !.pc = "qa_guardrail"]]
            /\ now' = now
    /\ UNCHANGED <<store, call>>

\* 4. QA Guardrail (always runs)
Guardrail(w, scores) ==
    /\ Local(w).pc = "qa_guardrail"
    /\ \E scored \in scores : \E t \in utcnow :
          /\ AfterAgent(w, qa_guardrail_agent(Local(w).payload[1], scored, t),
                        "update")
          /\ now' = t
    /\ UNCHANGED <<store, call>>

\* a final write that sets the status and the timestamp but not the payload
UpdateRecord_status_only(w) ==
    /\ Local(w).pc = "update"
    /\ UNCHANGED call
    /\ \E t \in utcnow : \E committed \in BOOLEAN :
         LET record == [Local(w).record[1] EXCEPT
                           !.updated_at = t,
                           !.status = "completed"]
         IN /\ now' = t
            /\ IF committed
               THEN /\ store' = [store EXCEPT ![record.workflow_id] =
                                                   Some(record)]
                    /\ run' = [run EXCEPT ![w] = [@ EXCEPT
                          !.pc = "log_event",
                          !.record = Some(record)]]
               ELSE /\ store' = store
                    /\ run' = [run EXCEPT ![w] = [@ EXCEPT
                          !.pc = "except",
                          !.record = Some(record),
                          !.session = "failed",
                          !.exc = "SQLAlchemyError"]]

\* record.payload = ...; record.updated_at = ...; record.status =
\* "completed"; db.commit()
UpdateRecord(w) ==
    /\ Local(w).pc = "update"
    /\ UNCHANGED call
    /\ \E t \in utcnow : \E committed \in BOOLEAN :
         LET record == [Local(w).record[1] EXCEPT
                           !.payload = PayloadSnapshot(Local(w).payload[1]),
                           !.updated_at = t,
                           !.status = "completed"]
         IN /\ now' = t
            /\ IF committed
               THEN /\ store' = [store EXCEPT ![record.workflow_id] =
                                                   Some(record)]
                    /\ run' = [run EXCEPT ![w] = [@ EXCEPT
                          !.pc = "log_event",
                          !.record = Some(record)]]
               ELSE /\ store' = store
                    /\ run' = [run EXCEPT ![w] = [@ EXCEPT
                          !.pc = "except",
                          !.record = Some(record),
                          !.session = "failed",
                          !.exc = "SQLAlchemyError"]]

\* log_automation_event({...}): json.dumps and print, which may raise
LogEvent(w) ==
    /\ Local(w).pc = "log_event"
    /\ \E logged \in BOOLEAN :
          run' = [run EXCEPT ![w] =
              IF logged THEN [@ EXCEPT !.pc = "return"]
              ELSE [@ EXCEPT !.pc = "except", !.exc = "OSError"]]
    /\ UNCHANGED <<store, now, call>>

\* return WorkflowResponse(...); finally: db.close()
Return(w) ==
    /\ Local(w).pc = "return"
    /\ run' = [run EXCEPT ![w] = [@ EXCEPT
          !.pc = "done",
          !.response = Some(WorkflowResponse(Local(w).workflow_id,
                                             Local(w).payload[1]))]]
    /\ UNCHANGED <<store, now, call>>

\* except Exception as e: if the record exists, record.status = "failed",
\* record.updated_at = ..., db.commit(); then the event log and raise
\* HTTPException(500); finally: db.close().  The commit writes the row's
\* status and updated_at when it goes through.  After a commit of this
\* session has failed the session's transaction is rolled back and
\* inactive, and this commit raises in its turn without writing.
HandleFailure(w) ==
    /\ Local(w).pc = "except"
    /\ UNCHANGED call
    /\ IF Local(w).record # None
       THEN \E t \in utcnow :
            \E committed \in IF Local(w).session = "clean" THEN BOOLEAN
                              ELSE {FALSE} :
              LET record == [Local(w).record[1] EXCEPT !.status = "failed",
                                                       !.updated_at = t]
                  id == record.workflow_id
              IN /\ now' = t
                 /\ store' = IF committed /\ store[id] # None
                             THEN [store EXCEPT ![id] =
                                      Some([store[id][1] EXCEPT
                                               !.status = "failed",
                                               !.updated_at = t])]
                             ELSE store
                 /\ run' = [run EXCEPT ![w] = [@ EXCEPT
                       !.pc = "done",
                       !.record = Some(record),
                       !.session = IF committed THEN @ ELSE "failed",
                       !.response = Some(ErrorResponse(Local(w).workflow_id,
                                                       Local(w).exc))]]
       ELSE /\ run' = [run EXCEPT ![w] = [@ EXCEPT
                  !.pc = "done",
                  !.response = Some(ErrorResponse(Local(w).workflow_id,
                                                  Local(w).exc))]]
            /\ UNCHANGED <<store, now, call>>

\* datetime.isoformat(): the timestamp as a string
isoformat(t) == <<"iso", t>>

\* the 404 of get_workflow
NotFound(workflow_id) ==
    [kind |-> "HTTPException", status_code |-> 404, workflow_id |-> workflow_id]

\* get_workflow(workflow_id): the row of that key as a dict, or 404
get_workflow(table, workflow_id) ==
    IF workflow_id \notin DOMAIN table \/ table[workflow_id] = None
    THEN NotFound(workflow_id)
    ELSE LET record == table[workflow_id][1] IN
         [kind |-> "workflow",
          workflow_id |-> record.workflow_id,
          tenant_id |-> record.tenant_id,
          status |-> record.status,
          payload |-> record.payload,
          created_at |-> isoformat(record.created_at),
          updated_at |-> isoformat(record.updated_at)]

\* `if tenant_id:` and `if status:`: None and the empty string add no filter
Truthy(x) == x # None /\ x # Some("")

\* the keys of the rows the query's WHERE clauses keep
Selected(table, tenant_id, status) ==
    {id \in DOMAIN table :
        /\ table[id] # None
        /\ Truthy(tenant_id) => table[id][1].tenant_id = tenant_id[1]
        /\ Truthy(status) => table[id][1].status = status[1]}

\* an ORDER BY created_at without DESC: oldest first
Orderings_ascending(table, ids) ==
    {s \in [1..Cardinality(ids) -> ids] :
        /\ \A i, j \in DOMAIN s : i # j => s[i] # s[j]
        /\ \A i, j \in DOMAIN s :
              i < j => table[s[i]][1].created_at <= table[s[j]][1].created_at}

\* ORDER BY created_at DESC: every order of the keys the database may give,
\* rows of equal created_at in any order
Orderings(table, ids) ==
    {s \in [1..Cardinality(ids) -> ids] :
        /\ \A i, j \in DOMAIN s : i # j => s[i] # s[j]
        /\ \A i, j \in DOMAIN s :
              i < j => table[s[i]][1].created_at >= table[s[j]][1].created_at}

\* one entry of the "workflows" list
Summary(record) ==
    [workflow_id |-> record.workflow_id,
     tenant_id |-> record.tenant_id,
     status |-> record.status,
     created_at |-> isoformat(record.created_at),
     updated_at |-> isoformat(record.updated_at)]

\* the database's answer to a negative LIMIT
QueryError == [kind |-> "HTTPException", status_code |-> 500]

\* {"workflows": [...], "count": len(records)} for the first `limit` rows
ListResponse(table, ordered, limit) ==
    LET records == SubSeq(ordered, 1, Min(limit, Len(ordered))) IN
    [kind |-> "workflows",
     workflows |-> [i \in 1..Len(records) |-> Summary(table[records[i]][1])],
     count |-> Len(records)]

\* list_workflows(tenant_id, status, limit): what the call may give.  A
\* negative LIMIT is an error on PostgreSQL and no limit on SQLite.
list_workflows(table, tenant_id, status, limit) ==
    LET orderings == Orderings(table, Selected(table, tenant_id, status)) IN
    IF limit < 0
    THEN {QueryError} \cup
         {ListResponse(table, ordered, Len(ordered)) : ordered \in orderings}
    ELSE {ListResponse(table, ordered, limit) : ordered \in orderings}

\* GET /workflows/{workflow_id}; the call keeps the table it was made on
GetWorkflow(ids) ==
    /\ call = None
    /\ \E workflow_id \in ids :
          call' = Some([agent |-> "get_workflow",
                        payload |-> [table |-> store,
                                     workflow_id |-> workflow_id],
                        result |-> Some(get_workflow(store, workflow_id))])
    /\ UNCHANGED <<run, store, now>>

\* GET /workflows
ListWorkflows(tenant_ids, statuses, limits) ==
    /\ call = None
    /\ \E tenant_id \in tenant_ids : \E status \in statuses :
       \E limit \in limits :
       \E result \in list_workflows(store, tenant_id, status, limit) :
          call' = Some([agent |-> "list_workflows",
                        payload |-> [table |-> store, tenant_id |-> tenant_id,
                                     status |-> status, limit |-> limit],
                        result |-> Some(result)])
    /\ UNCHANGED <<run, store, now>>

--------------------------------------------------------------------------
(* One incoming message, with every outcome of the collaborators *)

\* the scores the classifier, the risk scoring and a tenant may give
Scores == {0, 50, 70, 85, 95}

TenantIds == {"acme"}

Requests ==
    {Request(tenant_id, None, well_formed) :
        tenant_id \in TenantIds, well_formed \in BOOLEAN}
    \cup
    {Request(tenant_id,
             Some([auto_send_enabled |-> a, escalation_threshold |-> th]),
             TRUE) :
        tenant_id \in TenantIds, a \in BOOLEAN, th \in {70, 90}}

Fetches == {None} \cup {Some(n) : n \in 0..MaxHistory}

Classifications ==
    {None} \cup {Some(Classification(intent, confidence, "normal")) :
                    intent \in Intent, confidence \in Scores}

RiskScores == {None} \cup {Some(r) : r \in {PLACEHOLDER_RISK, 30, 80}}

Init ==
    /\ run = [w \in Runs |-> IdleRun]
    /\ store = [id \in Runs |-> None]
    /\ now = 0
    /\ call = None

Handler(w) ==
    \/ Receive(w, Requests, {w})
    \/ BuildPayload(w)
    \/ CreateRecord(w)
    \/ Ingestion(w, Fetches)
    \/ Triage(w, Classifications)
    \/ Route(w)
    \/ Guardrail(w, RiskScores)
    \/ UpdateRecord(w)
    \/ LogEvent(w)
    \/ Return(w)
    \/ HandleFailure(w)

Next == Handler(1)

Spec == Init /\ [][Next]_vars

\* the handler is straight-line code on one thread: its next step is taken
FairSpec == Spec /\ WF_vars(Next)

--------------------------------------------------------------------------
(* The agents as functions: each applied to every payload of a grid *)

\* scores from 0.0 to 1.0 in steps of 0.05
ScoreGrid == {5 * k : k \in 0..20}

\* the payloads an agent may be handed: any classification or none, any
\* tenant policy, with or without an action already planned
AgentPayloads ==
    {[WorkflowPayload(1, "acme",
                      TenantConfig("acme",
                          Some([auto_send_enabled |-> a,
                                escalation_threshold |-> th])),
                      0, 0)
        EXCEPT !.classification = classification, !.action_plan = plan] :
        a \in BOOLEAN, th \in ScoreGrid,
        classification \in
            {None} \cup {Some(Classification(intent, confidence, "normal")) :
                            intent \in Intent, confidence \in ScoreGrid},
        plan \in {<<>>, <<Action("reply", "gmail")>>}}

\* a call of an agent: its argument and, once it has run, what it gave
Call(agent, payload, result) ==
    [agent |-> agent, payload |-> payload, result |-> result]

Called(agent, out) ==
    /\ call # None
    /\ call[1].agent = ""
    /\ call' = Some(Call(agent, call[1].payload, Some(out)))

CallIngestion ==
    /\ \E fetched \in Fetches : \E t \in utcnow :
          /\ Called("ingestion", ingestion_agent(call[1].payload, fetched, t))
          /\ now' = t
    /\ UNCHANGED <<run, store>>

CallTriage ==
    /\ \E classified \in
            {None, Some(Classification("scheduling", PLACEHOLDER_CONFIDENCE,
                                       "normal"))} :
       \E t \in utcnow :
          /\ Called("triage", triage_agent(call[1].payload, classified, t))
          /\ now' = t
    /\ UNCHANGED <<run, store>>

CallAdminScheduling ==
    /\ \E drafted \in BOOLEAN : \E t \in utcnow :
          /\ Called("admin_scheduling",
                    admin_scheduling_agent(call[1].payload, drafted, t))
          /\ now' = t
    /\ UNCHANGED <<run, store>>

CallSupportFaq ==
    /\ \E drafted \in BOOLEAN : \E t \in utcnow :
          /\ Called("support_faq",
                    support_faq_agent(call[1].payload, drafted, t))
          /\ now' = t
    /\ UNCHANGED <<run, store>>

CallGuardrail ==
    /\ \E scored \in {None} \cup {Some(r) : r \in ScoreGrid} :
       \E t \in utcnow :
          /\ Called("qa_guardrail",
                    qa_guardrail_agent(call[1].payload, scored, t))
          /\ now' = t
    /\ UNCHANGED <<run, store>>

AgentInit ==
    /\ run = [w \in Runs |-> IdleRun]
    /\ store = [id \in Runs |-> None]
    /\ now = 0
    /\ call \in {Some(Call("", payload, None)) : payload \in AgentPayloads}

AgentNext ==
    \/ CallIngestion
    \/ CallTriage
    \/ CallAdminScheduling
    \/ CallSupportFaq
    \/ CallGuardrail

AgentSpec == AgentInit /\ [][AgentNext]_vars

--------------------------------------------------------------------------
(* Several handler invocations against one table, one after the other as the
   event loop runs the handler (it never awaits); uuid4 may give a key the
   table already holds *)

StoreRequests == {Request("acme", None, TRUE)}

StoreHandler(w) ==
    \/ Receive(w, StoreRequests, Runs)
    \/ BuildPayload(w)
    \/ CreateRecord(w)
    \/ Ingestion(w, {Some(0)})
    \/ Triage(w, {Some(Classification("scheduling", PLACEHOLDER_CONFIDENCE,
                                       "normal"))})
    \/ Route(w)
    \/ Guardrail(w, {Some(PLACEHOLDER_RISK)})
    \/ UpdateRecord(w)
    \/ LogEvent(w)
    \/ Return(w)
    \/ HandleFailure(w)

\* the invocations that have returned or raised to the caller
Finished == {w \in Runs : run[w].pc = "done"}

StoreNext == \E w \in Runs : (1..(w - 1)) \subseteq Finished /\ StoreHandler(w)

\* the table is empty and the clock is one tick short of its bound
StoreInit ==
    /\ run = [w \in Runs |-> IdleRun]
    /\ store = [id \in Runs |-> None]
    /\ now = MaxClock - 1
    /\ call = None

StoreSpec == StoreInit /\ [][StoreNext]_vars

--------------------------------------------------------------------------
(* Handler invocations of distinct workflow_ids against one table, their
   steps interleaved as under several workers, with the read endpoints
   called meanwhile *)

ConcurrentHandler(w) ==
    \/ Receive(w, StoreRequests, {w})
    \/ BuildPayload(w)
    \/ CreateRecord(w)
    \/ Ingestion(w, {Some(0)})
    \/ Triage(w, {Some(Classification("scheduling", PLACEHOLDER_CONFIDENCE,
                                       "normal"))})
    \/ Route(w)
    \/ Guardrail(w, {Some(PLACEHOLDER_RISK)})
    \/ UpdateRecord(w)
    \/ LogEvent(w)
    \/ Return(w)
    \/ HandleFailure(w)

ConcurrentNext ==
    \/ \E w \in Runs : ConcurrentHandler(w)
    \/ GetWorkflow(Runs)
    \/ ListWorkflows({None}, {None, Some("completed")}, {NumRuns})

ConcurrentSpec == StoreInit /\ [][ConcurrentNext]_vars

--------------------------------------------------------------------------
(* The read endpoints as functions of the table: each applied to every
   table of a grid *)

QueryTenants == {"acme", "globex"}

RecordStatuses == {"processing", "completed", "failed"}

\* the rows runs may have left under one key
StoredRecords(id) ==
    {Some([WorkflowRecord(id, tenant_id,
                          WorkflowPayload(id, tenant_id,
                                          TenantConfig(tenant_id, None),
                                          created, created),
                          created, created)
             EXCEPT !.status = status]) :
        tenant_id \in QueryTenants, status \in RecordStatuses,
        created \in 0..MaxClock}

Tables ==
    {table \in [Runs -> {None} \cup UNION {StoredRecords(id) : id \in Runs}] :
        \A id \in Runs : table[id] = None \/ table[id][1].workflow_id = id}

\* the query parameters: absent, empty or a value
TenantFilters == {None, Some(""), Some("acme")}

StatusFilters == {None, Some(""), Some("completed"), Some("failed")}

Limits == (0 - 1)..NumRuns

QueryInit ==
    /\ run = [w \in Runs |-> IdleRun]
    /\ store \in Tables
    /\ now = MaxClock
    /\ call = None

QueryNext ==
    \/ GetWorkflow(0..NumRuns)
    \/ ListWorkflows(TenantFilters, StatusFilters, Limits)

QuerySpec == QueryInit /\ [][QueryNext]_vars

--------------------------------------------------------------------------
(* Properties *)

\* the runs whose payload exists
Built == {w \in Runs : run[w].payload # None}

\* the runs whose pipeline is over (the guardrail has returned)
PipelineOver ==
    {w \in Built : \/ run[w].pc \in {"update", "log_event", "return"}
                   \/ run[w].pc \in {"except", "done"}
                      /\ run[w].agent_logs # <<>>}

\* the runs that returned a WorkflowResponse to the caller
Answered ==
    {w \in Runs : /\ run[w].pc = "done"
                  /\ run[w].response[1].kind = "WorkflowResponse"}

AgentsLogged(w) ==
    [i \in DOMAIN run[w].agent_logs |-> run[w].agent_logs[i].agent]

StatusOf(w, agent) ==
    {run[w].agent_logs[i].status :
        i \in {j \in DOMAIN run[w].agent_logs :
                  run[w].agent_logs[j].agent = agent}}

\* a call of the guardrail that found a classification and a risk score
GuardrailDecided ==
    /\ call # None
    /\ call[1].agent = "qa_guardrail"
    /\ call[1].payload.classification # None
    /\ call[1].result[1].payload.qa_risk_score # None

\* the reference table of the decision, by zone of the (c, r) plane
ReferenceDecision(c, r, a, th) ==
    CASE c < th -> "escalate"
      [] c >= th /\ r > 70 -> "escalate"
      [] c >= th /\ r < 30 /\ c > 85 /\ a -> "auto_send"
      [] OTHER -> "draft_only"

\* C1: for every payload with a classification and every (confidence, risk
\* score, auto_send_enabled, escalation_threshold) of the grid, the
\* guardrail sets qa_decision to the reference rule's value (escalate if
\* c < t or r > 0.7, else auto_send if a and r < 0.3 and c > 0.85, else
\* draft_only), whatever the intent and the action plan are.
C1_GuardrailFollowsReferenceRule ==
    GuardrailDecided =>
        LET arg == call[1].payload
            out == call[1].result[1]
        IN /\ ~out.raised
           /\ out.log.status = "completed"
           /\ out.payload.qa_decision =
                 ReferenceDecision(arg.classification[1].confidence,
                                   out.payload.qa_risk_score[1],
                                   arg.tenant_config.auto_send_enabled,
                                   arg.tenant_config.escalation_threshold)

\* C1 witness: confidence 0.9, risk 0.2, auto-send on, threshold 0.7 gives
\* auto_send for a support message with an action already planned
C1_Witness ==
    /\ GuardrailDecided
    /\ call[1].payload.classification[1].confidence = 90
    /\ call[1].payload.classification[1].intent = "support"
    /\ call[1].payload.action_plan # <<>>
    /\ call[1].payload.tenant_config.auto_send_enabled
    /\ call[1].payload.tenant_config.escalation_threshold = 70
    /\ call[1].result[1].payload.qa_risk_score = Some(20)
    /\ call[1].result[1].payload.qa_decision = "auto_send"

\* C2: when triage leaves no classification, the guardrail treats it as
\* confidence 0.0 and the workflow ends with qa_decision = escalate, never
\* with auto_send, draft_only or no decision.
C2_UnclassifiedEscalates ==
    \A w \in PipelineOver :
        run[w].payload[1].classification = None
            => run[w].payload[1].qa_decision = "escalate"

\* C3: qa_decision = auto_send implies auto_send_enabled = true: a run with
\* auto_send_enabled = false, the default config of a request without
\* tenant_config included, never carries auto_send in its payload, its
\* stored snapshot or its response, whatever the confidence and risk are.
C3_AutoSendGated ==
    \A w \in Built :
        LET request == run[w].request[1]
            enabled == /\ request.tenant_config # None
                       /\ request.tenant_config[1].auto_send_enabled
        IN /\ run[w].payload[1].tenant_config.auto_send_enabled = enabled
           /\ ~enabled =>
                /\ run[w].payload[1].qa_decision # "auto_send"
                /\ store[w] # None =>
                      store[w][1].payload.qa_decision # "auto_send"
                /\ run[w].response # None =>
                      run[w].response[1].decision # "auto_send"
                /\ w \in Answered /\ run[w].payload[1].classification # None
                   /\ run[w].payload[1].qa_risk_score # None
                      => run[w].response[1].decision
                            \in {"escalate", "draft_only"}

\* C3 witness: a request without tenant_config, confidence 0.95 and risk
\* 0.2, answered with draft_only
C3_Witness ==
    \E w \in Answered :
        /\ run[w].request[1].tenant_config = None
        /\ run[w].payload[1].classification # None
        /\ run[w].payload[1].classification[1].confidence = 95
        /\ run[w].payload[1].qa_risk_score = Some(20)
        /\ run[w].response[1].decision = "draft_only"

\* C4: escalation dominance: whenever the guardrail runs with confidence <
\* escalation_threshold or risk_score > 0.7, qa_decision is escalate, for
\* both values of auto_send_enabled.
C4_EscalationDominates ==
    GuardrailDecided =>
        LET arg == call[1].payload
            out == call[1].result[1].payload
        IN (\/ arg.classification[1].confidence
                  < arg.tenant_config.escalation_threshold
            \/ out.qa_risk_score[1] > 70)
           => out.qa_decision = "escalate"

\* C4 witness: auto-send on, confidence 0.95 over the threshold 0.7, and
\* the risk 0.75 alone escalates
C4_Witness ==
    /\ GuardrailDecided
    /\ call[1].payload.tenant_config.auto_send_enabled
    /\ call[1].payload.classification[1].confidence = 95
    /\ call[1].payload.tenant_config.escalation_threshold = 70
    /\ call[1].result[1].payload.qa_risk_score = Some(75)
    /\ call[1].result[1].payload.qa_decision = "escalate"

\* C5: every workflow whose record is completed has a payload snapshot
\* with qa_decision in {auto_send, draft_only, escalate} and a
\* qa_risk_score, and the response carries a non-null decision, whatever
\* the upstream stages did.
C5_AlwaysOneDecision ==
    /\ \A id \in Runs :
          store[id] # None /\ store[id][1].status = "completed"
             => /\ store[id][1].payload.qa_decision \in QADecision
                /\ store[id][1].payload.qa_risk_score # None
    /\ \A w \in Answered : run[w].response[1].decision \in QADecision

\* C6: a record's status follows processing -> completed or processing ->
\* failed and nothing else: a record is created with status processing,
\* completed and failed are absorbing, and no record holds another status.
C6_StatusStateMachine ==
    [][\A id \in Runs :
          /\ store[id] = None /\ store'[id] # None
                => store'[id][1].status = "processing"
          /\ store[id] # None
                => /\ store'[id] # None
                   /\ store'[id][1].status
                         \in {"processing", "completed", "failed"}
                   /\ store[id][1].status # store'[id][1].status
                         => /\ store[id][1].status = "processing"
                            /\ store'[id][1].status \in {"completed", "failed"}
      ]_vars

\* C7: stage failures are contained: whatever stages log the status
\* failed, the remaining stages still run, no stage's error becomes the
\* handler's exception, and a run that the store and the event log did not
\* fail ends with its record completed and a normal response with status
\* completed.
C7_StageFailuresContained ==
    \A w \in Runs :
        /\ run[w].exc \in {"", "TypeError", "SQLAlchemyError", "OSError"}
        /\ run[w].pc \in {"ingestion", "triage", "route", "qa_guardrail",
                          "update", "log_event", "return"}
              => run[w].exc = ""
        /\ w \in PipelineOver
              => {"ingestion", "triage", "qa_guardrail"}
                    \subseteq {run[w].agent_logs[i].agent :
                                  i \in DOMAIN run[w].agent_logs}
        /\ run[w].pc = "done" /\ run[w].exc = ""
              => /\ run[w].response[1].kind = "WorkflowResponse"
                 /\ run[w].response[1].status = "completed"
                 /\ store[w] # None
                 /\ store[w][1].status = "completed"

\* C7 witness: ingestion, triage and the guardrail all logged failed and
\* the caller got a normal response, the record being completed
C7_Witness ==
    \E w \in Answered :
        /\ StatusOf(w, "ingestion") = {"failed"}
        /\ StatusOf(w, "triage") = {"failed"}
        /\ StatusOf(w, "qa_guardrail") = {"failed"}
        /\ run[w].response[1].status = "completed"
        /\ store[w][1].status = "completed"

\* the worker entries of agent_logs
WorkerAgents == {"admin_scheduling", "support_faq", "worker"}

\* the complete agent_logs sequences, by agent
StageOrders ==
    {<<"ingestion", "triage", "qa_guardrail">>}
    \cup {<<"ingestion", "triage", worker, "qa_guardrail">> :
             worker \in WorkerAgents}

IsPrefix(s, t) ==
    /\ Len(s) <= Len(t)
    /\ \A i \in 1..Len(s) : s[i] = t[i]

\* C8: the stage order is fixed: agent_logs starts with the ingestion
\* entry, then the triage entry, then at most one worker entry, and ends
\* with the qa_guardrail entry, which every run that reached the pipeline
\* has; no stage appears twice or out of order.
C8_StageOrderFixed ==
    \A w \in Runs :
        /\ \E order \in StageOrders : IsPrefix(AgentsLogged(w), order)
        /\ w \in PipelineOver => AgentsLogged(w) \in StageOrders
        /\ run[w].pc \in {"update", "log_event", "return"}
              => w \in PipelineOver

\* C8 witness: a finished run that logged ingestion, triage,
\* admin_scheduling and qa_guardrail, in this order
C8_Witness ==
    \E w \in Answered :
        AgentsLogged(w) =
            <<"ingestion", "triage", "admin_scheduling", "qa_guardrail">>

\* the runs whose record is completed in the store
Completed ==
    {w \in Built : store[w] # None /\ store[w][1].status = "completed"}

WorkerRuns(w) ==
    {i \in DOMAIN run[w].agent_logs :
        run[w].agent_logs[i].agent \in {"admin_scheduling", "support_faq"}}

\* the worker of an intent
WorkerOf(intent) ==
    IF intent = "scheduling" THEN "admin_scheduling" ELSE "support_faq"

\* C10: routing exclusivity: at most one worker agent executes in a run,
\* the one of classification.intent, so action_plan has length at most 1:
\* exactly 1, a reply, when the intent is scheduling or support and the
\* worker completed, and 0 for billing, lead, other, spam and for an
\* absent classification.  The guardrail never appends to action_plan.
C10_RoutingExclusive ==
    \A w \in Built :
        LET payload == run[w].payload[1]
            logs == run[w].agent_logs
            routed == /\ payload.classification # None
                      /\ payload.classification[1].intent
                            \in {"scheduling", "support"}
        IN /\ Len(payload.action_plan) <= 1
           /\ Cardinality(WorkerRuns(w)) <= 1
           /\ \A i \in WorkerRuns(w) :
                 /\ routed
                 /\ logs[i].agent = WorkerOf(payload.classification[1].intent)
           /\ run[w].pc \in {"qa_guardrail", "update", "log_event", "return"}
              \/ w \in PipelineOver
                 => IF routed /\ \E i \in WorkerRuns(w) :
                                    logs[i].status = "completed"
                    THEN /\ Len(payload.action_plan) = 1
                         /\ payload.action_plan[1].action_type = "reply"
                    ELSE payload.action_plan = <<>>

\* C10 witness: a support message whose worker completed, answered with
\* one reply planned
C10_Witness ==
    \E w \in Answered :
        /\ run[w].payload[1].classification # None
        /\ run[w].payload[1].classification[1].intent = "support"
        /\ StatusOf(w, "support_faq") = {"completed"}
        /\ Len(run[w].payload[1].action_plan) = 1
        /\ StatusOf(w, "qa_guardrail") = {"completed"}

--------------------------------------------------------------------------
(* Construction failure, the store and the read endpoints *)

\* C11: workflow construction failure: when building the tenant config or
\* the payload from the request fails before any stage runs, the workflow
\* has a record in the store marked failed, no stage has run (agent_logs is
\* empty) and the caller receives an error response.
C11_ConstructionFailureRecorded ==
    \A w \in Runs :
        (run[w].pc = "done" /\ run[w].exc = "TypeError")
        => /\ store[run[w].workflow_id] # None
           /\ store[run[w].workflow_id][1].status = "failed"
           /\ run[w].agent_logs = <<>>
           /\ run[w].response[1].kind = "HTTPException"

\* the invocations whose create went through: each wrote the row of its key
Created ==
    {w \in Runs :
        /\ run[w].record # None
        /\ \/ run[w].pc \in {"ingestion", "triage", "route", "qa_guardrail",
                             "update", "log_event", "return"}
           \/ run[w].pc \in {"except", "done"} /\ run[w].agent_logs # <<>>}

\* the invocations whose create met a key the table already held
Conflicted == {w \in Runs : run[w].exc = "IntegrityError"}

\* C12: store uniqueness and conflict isolation: the store holds at most
\* one record per workflow_id, the one written by the single create that
\* went through for that key; a create with a workflow_id that already
\* exists fails, and neither that failed create nor any later step of its
\* invocation (its failure handler included) changes the pre-existing
\* record or any other record.
C12_StoreConflictIsolated ==
    /\ [](\A id \in Runs :
            /\ Cardinality({w \in Created : run[w].workflow_id = id}) <= 1
            /\ store[id] # None
               => /\ store[id][1].workflow_id = id
                  /\ \E w \in Created : run[w].workflow_id = id)
    /\ [][\A w \in Runs :
            (/\ run[w].pc = "create"
             /\ store[run[w].workflow_id] # None
             /\ run'[w] # run[w])
            => /\ run'[w].pc = "except"
               /\ run'[w].exc = "IntegrityError"
               /\ store' = store]_vars
    /\ [][\A w \in Conflicted : run'[w] # run[w] => store' = store]_vars

\* C12 witness: an invocation was handed the key of a completed record, its
\* create failed and its failure handler has run; the completed record is
\* still what its creator wrote
C12_Witness ==
    \E w \in Created : \E v \in Conflicted :
        /\ run[v].workflow_id = run[w].workflow_id
        /\ run[v].pc = "done"
        /\ run[v].response[1].kind = "HTTPException"
        /\ run[w].pc = "done"
        /\ store[run[w].workflow_id] = run[w].record
        /\ store[run[w].workflow_id][1].status = "completed"

\* the list calls made, with the table each was made on
Listed == {c \in {call} : c # None /\ c[1].agent = "list_workflows"}

\* the keys of the rows that agree with every filter of `given`
Matching(table, tenant_id, status, given(_)) ==
    {id \in DOMAIN table :
        /\ table[id] # None
        /\ given(tenant_id) => table[id][1].tenant_id = tenant_id[1]
        /\ given(status) => table[id][1].status = status[1]}

\* the answer lists `limit` of the rows `matching`, newest first, none
\* twice, and no row left out is newer than a row listed
FirstOfNewest(table, matching, limit, response) ==
    LET workflows == response.workflows
        listed == {workflows[i].workflow_id : i \in DOMAIN workflows}
    IN /\ response.kind = "workflows"
       /\ listed \subseteq matching
       /\ Cardinality(listed) = Len(workflows)
       /\ Len(workflows) = Min(limit, Cardinality(matching))
       /\ \A i \in DOMAIN workflows :
             workflows[i] = Summary(table[workflows[i].workflow_id][1])
       /\ \A i, j \in DOMAIN workflows :
             i < j => table[workflows[i].workflow_id][1].created_at
                         >= table[workflows[j].workflow_id][1].created_at
       /\ \A id \in matching \ listed : \A other \in listed :
             table[id][1].created_at <= table[other][1].created_at
       /\ response.count = Len(workflows)
       /\ response.count <= limit

IsGiven(x) == x # None

\* C13: list(tenant_id?, status?, limit) returns exactly the records that
\* match every given filter (a missing filter matches all), ordered by
\* created_at descending, truncated to the first `limit` of that order; the
\* reported count equals the number of returned records and is at most
\* limit; list changes no record.
C13_ListMatchesGivenFilters ==
    \A c \in Listed :
        LET args == c[1].payload IN
        /\ FirstOfNewest(args.table,
                         Matching(args.table, args.tenant_id, args.status,
                                  IsGiven),
                         args.limit, c[1].result[1])
        /\ store = args.table

\* C13 amended: for a limit of zero or more, list returns exactly the
\* records that match every non-empty filter (a missing filter and an
\* empty-string filter both match all), ordered by created_at descending
\* with records of equal created_at in any order, truncated to the first
\* `limit` of that order; the reported count equals the number of returned
\* records and is at most limit.  For any limit, list changes no record.
C13_ListMatchesNonEmptyFilters ==
    \A c \in Listed :
        LET args == c[1].payload IN
        /\ args.limit >= 0
           => FirstOfNewest(args.table,
                            Matching(args.table, args.tenant_id, args.status,
                                     Truthy),
                            args.limit, c[1].result[1])
        /\ store = args.table

\* C13 witness: two records of the tenant asked for, of different age, and a
\* limit of one: only the newer one is listed
C13_Witness ==
    \E c \in Listed :
        LET args == c[1].payload IN
        /\ args.tenant_id = Some("acme")
        /\ args.limit = 1
        /\ args.table[1] # None /\ args.table[2] # None
        /\ args.table[1][1].tenant_id = "acme"
        /\ args.table[2][1].tenant_id = "acme"
        /\ args.table[1][1].created_at < args.table[2][1].created_at
        /\ c[1].result[1].count = 1
        /\ c[1].result[1].workflows[1].workflow_id = 2

--------------------------------------------------------------------------
(* Timestamps, the decision and the stage contract *)

\* C14: monotonic timestamps: across the steps of one run the payload's
\* updated_at never decreases, in particular not over a stage, and it is
\* never earlier than created_at; the stored record's updated_at never
\* decreases either, so after the final write it is not earlier than it was
\* at creation.
C14_TimestampsMonotonic ==
    /\ [](\A w \in Built :
            run[w].payload[1].created_at <= run[w].payload[1].updated_at)
    /\ [][\A w \in Built :
            run'[w].payload[1].updated_at >= run[w].payload[1].updated_at]_vars
    /\ [][\A id \in Runs :
            store[id] # None
            => /\ store'[id] # None
               /\ store'[id][1].updated_at >= store[id][1].updated_at]_vars

\* C14 witness: a run answered after the clock advanced between the
\* payload's construction and a stage, and again before the final write
C14_Witness ==
    \E w \in Answered :
        /\ run[w].payload[1].created_at < run[w].payload[1].updated_at
        /\ store[w][1].status = "completed"
        /\ store[w][1].created_at < store[w][1].updated_at
        /\ run[w].payload[1].updated_at < store[w][1].updated_at

\* C15: in every reachable state of a run qa_decision is set only if
\* classification is set, and it is assigned at most once: once the payload
\* has a qa_decision no later step of the run changes it, nor the decision
\* in the stored snapshot once that is written.
C15_DecisionAssignedOnce ==
    /\ [](\A w \in Built :
            run[w].payload[1].qa_decision # "None"
            => run[w].payload[1].classification # None)
    /\ [][\A w \in Built :
            run[w].payload[1].qa_decision # "None"
            => run'[w].payload[1].qa_decision
                  = run[w].payload[1].qa_decision]_vars
    /\ [][\A id \in Runs :
            (store[id] # None /\ store[id][1].payload.qa_decision # "null")
            => store'[id][1].payload.qa_decision
                  = store[id][1].payload.qa_decision]_vars

\* C15 witness: a classified message was decided, and the decision went
\* unchanged through the final write, the event log and the response
C15_Witness ==
    \E w \in Answered :
        /\ run[w].payload[1].classification # None
        /\ run[w].payload[1].qa_decision = "escalate"
        /\ store[w][1].payload.qa_decision = "escalate"
        /\ run[w].response[1].decision = "escalate"

\* the agent calls that have been made
AgentCalls == {c \in {call} : c # None /\ c[1].agent \in
                  {"ingestion", "triage", "admin_scheduling", "support_faq",
                   "qa_guardrail"}}

\* C16: no stage raises past its own boundary: for every payload, one
\* whose classification is absent included, each of the five agents returns
\* a (payload, log) pair, and an internal failure shows up as a log entry
\* with status failed and an error message.
C16_NoStageRaises ==
    \A c \in AgentCalls :
        LET out == c[1].result[1] IN
        /\ ~out.raised
        /\ out.log.agent = c[1].agent
        /\ out.log.status = "failed" <=> out.log.error # ""

\* the fields of the payload the stages enrich
Enrichment(payload) ==
    [classification |-> payload.classification,
     qa_decision |-> payload.qa_decision,
     qa_risk_score |-> payload.qa_risk_score,
     thread_history |-> payload.thread_history,
     action_plan |-> payload.action_plan]

\* C17: a failed stage leaves the payload unchanged except for updated_at:
\* whenever a stage returns a log entry with status failed,
\* classification, qa_decision, qa_risk_score, thread_history and
\* action_plan have the values they had before the stage ran.
C17_FailedStageLeavesPayload ==
    \A c \in AgentCalls :
        LET out == c[1].result[1] IN
        (~out.raised /\ out.log.status = "failed")
        => Enrichment(out.payload) = Enrichment(c[1].payload)

\* the calls of a worker agent on a payload classified with another intent
GuardedCalls ==
    {c \in AgentCalls :
        /\ c[1].payload.classification # None
        /\ \/ /\ c[1].agent = "admin_scheduling"
              /\ c[1].payload.classification[1].intent # "scheduling"
           \/ /\ c[1].agent = "support_faq"
              /\ c[1].payload.classification[1].intent # "support"}

\* C18: worker guard clause: admin_scheduling_agent (resp.
\* support_faq_agent) invoked on a payload whose classification.intent is
\* not scheduling (resp. support) returns the payload with action_plan,
\* classification, qa_decision and qa_risk_score unchanged and a log entry
\* with status skipped and skipped true; no log entry a stage returns has
\* the status pending.
C18_GuardClauseSkips ==
    /\ \A c \in GuardedCalls :
          LET out == c[1].result[1] IN
          /\ ~out.raised
          /\ out.payload.action_plan = c[1].payload.action_plan
          /\ out.payload.classification = c[1].payload.classification
          /\ out.payload.qa_decision = c[1].payload.qa_decision
          /\ out.payload.qa_risk_score = c[1].payload.qa_risk_score
          /\ out.log.status = "skipped"
          /\ out.log.skipped
    /\ \A c \in AgentCalls :
          ~c[1].result[1].raised => c[1].result[1].log.status # "pending"

\* C19: all four comparisons of the guardrail are strict: a confidence
\* exactly equal to escalation_threshold does not escalate and a risk score
\* of exactly 0.7 does not escalate, so with both the decision is not
\* escalate; with auto_send_enabled and no escalation, a risk score of
\* exactly 0.3 or a confidence of exactly 0.85 gives draft_only, not
\* auto_send.  In particular the triage placeholder's confidence 0.85 with
\* risk score 0.2 and threshold 0.7 ends in draft_only whether or not
\* auto_send_enabled is set.
C19_ComparisonsStrict ==
    GuardrailDecided =>
        LET c == call[1].payload.classification[1].confidence
            r == call[1].result[1].payload.qa_risk_score[1]
            a == call[1].payload.tenant_config.auto_send_enabled
            th == call[1].payload.tenant_config.escalation_threshold
            decision == call[1].result[1].payload.qa_decision
        IN /\ (c = th /\ r <= RISK_ESCALATE) => decision # "escalate"
           /\ (r = RISK_ESCALATE /\ c >= th) => decision # "escalate"
           /\ (a /\ c >= th /\ r <= RISK_ESCALATE /\ r = RISK_AUTO_SEND)
              => decision = "draft_only"
           /\ (a /\ c >= th /\ r <= RISK_ESCALATE /\ c = CONFIDENCE_AUTO_SEND)
              => decision = "draft_only"
           /\ (c = PLACEHOLDER_CONFIDENCE /\ r = PLACEHOLDER_RISK
               /\ th = DEFAULT_ESCALATION_THRESHOLD)
              => decision = "draft_only"

\* C19 witness: the placeholder's scheduling message of confidence 0.85,
\* with risk score 0.2 and threshold 0.7, for a tenant with auto-send on,
\* decided draft_only
C19_Witness ==
    /\ GuardrailDecided
    /\ call[1].payload.classification[1].intent = "scheduling"
    /\ call[1].payload.classification[1].confidence = PLACEHOLDER_CONFIDENCE
    /\ call[1].payload.tenant_config.auto_send_enabled
    /\ call[1].payload.tenant_config.escalation_threshold
          = DEFAULT_ESCALATION_THRESHOLD
    /\ call[1].result[1].payload.qa_risk_score = Some(PLACEHOLDER_RISK)
    /\ call[1].result[1].payload.qa_decision = "draft_only"

--------------------------------------------------------------------------
(* What the store shows of a run in progress *)

\* the runs between two stages: a stage has returned, the next has not begun
BetweenStages ==
    {w \in Built : run[w].pc \in {"triage", "route", "qa_guardrail"}}

\* the runs from the creation of the record up to the final write
InPipeline ==
    {w \in Built : run[w].pc \in {"ingestion", "triage", "route",
                                  "qa_guardrail", "update"}}

\* the enrichment fields of a stored snapshot
SnapshotEnrichment(snapshot) ==
    [classification |-> snapshot.classification,
     qa_decision |-> snapshot.qa_decision,
     qa_risk_score |-> snapshot.qa_risk_score,
     thread_history |-> snapshot.thread_history,
     action_plan |-> snapshot.action_plan]

\* the snapshot of a payload no stage has touched
Unenriched ==
    SnapshotEnrichment(PayloadSnapshot(
        WorkflowPayload(0, "", TenantConfig("", None), 0, 0)))

\* C20: the orchestrator persists the payload after each stage: after every
\* stage and before the next one starts the stored record's payload
\* snapshot equals the payload that stage returned, so a get(workflow_id)
\* issued between two stages observes the enrichment of all stages
\* finished so far.
C20_PersistedAfterEachStage ==
    \A w \in BetweenStages :
        LET got == get_workflow(store, run[w].workflow_id) IN
        /\ got.kind = "workflow"
        /\ got.payload = PayloadSnapshot(run[w].payload[1])

\* C20 amended: the orchestrator persists the payload twice in a run: the
\* snapshot of the payload as built when the record is created, and the
\* snapshot of the payload the guardrail returned in the final write.  From
\* the creation to the final write a get(workflow_id) observes status
\* processing and the snapshot written at creation, with none of the
\* stages' enrichment; after the final write it observes status completed
\* (failed if a later step of the handler raised) and the payload the
\* guardrail returned.
C20_PersistedAtCreationAndEnd ==
    \A w \in Built :
        LET got == get_workflow(store, run[w].workflow_id) IN
        /\ w \in InPipeline
           => /\ got.kind = "workflow"
              /\ got.status = "processing"
              /\ got.payload = run[w].record[1].payload
              /\ SnapshotEnrichment(got.payload) = Unenriched
        /\ (run[w].pc \in {"log_event", "return"} \/ w \in Answered)
           => /\ got.kind = "workflow"
              /\ got.status = "completed"
              /\ got.payload = PayloadSnapshot(run[w].payload[1])
        /\ (run[w].pc \in {"except", "done"} /\ run[w].exc = "OSError")
           => /\ got.kind = "workflow"
              /\ got.status \in {"completed", "failed"}
              /\ got.payload = PayloadSnapshot(run[w].payload[1])

\* C20 witness: between the worker and the guardrail the payload carries a
\* classification and a planned reply, and a get of the workflow shows
\* neither
C20_Witness ==
    \E w \in BetweenStages :
        LET got == get_workflow(store, run[w].workflow_id) IN
        /\ run[w].pc = "qa_guardrail"
        /\ run[w].payload[1].classification # None
        /\ Len(run[w].payload[1].action_plan) = 1
        /\ got.kind = "workflow"
        /\ got.status = "processing"
        /\ got.payload.classification = None
        /\ got.payload.action_plan = <<>>

--------------------------------------------------------------------------
(* The durable record, concurrent runs and the end of a run *)

\* what a get of the workflow finds of the run's agent_logs: the sequence
\* under the record or under its payload snapshot, or nothing
DurableLogs(got) ==
    IF "agent_logs" \in DOMAIN got THEN Some(got.agent_logs)
    ELSE IF "agent_logs" \in DOMAIN got.payload
    THEN Some(got.payload.agent_logs)
    ELSE None

\* C21: the durable record of a completed workflow contains the ordered
\* agent_logs sequence together with the final payload snapshot: after the
\* final write, get(workflow_id) gives one log entry per executed stage, in
\* execution order.
C21_DurableRecordHoldsLogs ==
    \A w \in Answered :
        LET got == get_workflow(store, run[w].workflow_id) IN
        /\ got.kind = "workflow"
        /\ got.status = "completed"
        /\ got.payload = PayloadSnapshot(run[w].payload[1])
        /\ DurableLogs(got) = Some(run[w].agent_logs)

\* a step writes at most the row keyed by the workflow_id of the run that
\* takes it, and a call of a read endpoint writes no row
OwnRecordOnly ==
    /\ [][\A w \in Runs :
            run'[w] # run[w]
            => \A id \in Runs \ {run'[w].workflow_id} :
                  store'[id] = store[id]]_vars
    /\ [][call' # call => store' = store]_vars

\* the row of a run is what that run's own locals make it: absent before
\* its create, its record as created until the final write, and the
\* snapshot of its own payload from then on
AsIfAlone ==
    \A w \in Runs :
        IF w \notin Created
        THEN run[w].workflow_id \in Runs => store[run[w].workflow_id] = None
        ELSE LET row == store[run[w].workflow_id] IN
             /\ row # None
             /\ row[1].workflow_id = run[w].workflow_id
             /\ row[1].created_at = run[w].record[1].created_at
             /\ w \in InPipeline => row = run[w].record
             /\ row[1].status = "processing"
                => SnapshotEnrichment(row[1].payload) = Unenriched
             /\ row[1].status # "processing"
                => row[1].payload = PayloadSnapshot(run[w].payload[1])

\* the writes of a row are one create with status processing and then one
\* update that ends the status
CreateThenFinalUpdate ==
    /\ [][\A id \in Runs :
            (store[id] = None /\ store'[id] # None)
            => store'[id][1].status = "processing"]_vars
    /\ [][\A id \in Runs :
            (store[id] # None /\ store'[id] # store[id])
            => /\ store[id][1].status = "processing"
               /\ store'[id] # None
               /\ store'[id][1].status \in {"completed", "failed"}]_vars

\* C22: concurrent runs are isolated: for any interleaving of two or more
\* runs of the handler with distinct workflow_ids, each run writes only the
\* record keyed by its own workflow_id, with one create and then one final
\* update, and each record's status and payload snapshot are those the run
\* would have produced alone; get and list running concurrently never
\* change any record.
C22_ConcurrentRunsIsolated ==
    /\ OwnRecordOnly
    /\ []AsIfAlone
    /\ CreateThenFinalUpdate

\* C23: every run terminates and reconciles its record: once the handler
\* has committed a record with status processing, the run eventually
\* returns to the caller, with a response or an error, and at that point
\* the record's status is completed or failed, never still processing;
\* this includes the runs whose final store write, or a step after it,
\* fails.
C23_RunReconcilesRecord ==
    \A w \in Runs :
        (w \in Created)
        ~> (/\ run[w].pc = "done"
            /\ run[w].response # None
            /\ run[w].workflow_id \in Runs
            /\ store[run[w].workflow_id] # None
            /\ store[run[w].workflow_id][1].status \in {"completed", "failed"})

\* the runs that raised an error to the caller
Refused ==
    {w \in Runs : /\ run[w].pc = "done"
                  /\ run[w].response[1].kind = "HTTPException"}

\* a response with status completed: the stored record of its workflow_id
\* is completed and holds the decision the response gives
AnsweredAgreesWithStore ==
    \A w \in Answered :
        LET got == get_workflow(store, run[w].response[1].workflow_id) IN
        /\ run[w].response[1].status = "completed"
        /\ got.kind = "workflow"
        /\ got.status = "completed"
        /\ got.payload.qa_decision = run[w].response[1].decision

\* C24: the response agrees with the store: whenever the handler returns a
\* response with status completed, the stored record of the returned
\* workflow_id has status completed and the qa_decision of its payload
\* snapshot equals the decision in the response (null in both or the same
\* value in both); whenever it returns an error for a workflow whose
\* record exists, that record's status is failed.
C24_ResponseAgreesWithStore ==
    /\ AnsweredAgreesWithStore
    /\ \A w \in Refused :
          LET got == get_workflow(store, run[w].response[1].workflow_id) IN
          got.kind = "workflow" => got.status = "failed"

====
